---- MODULE Spec2Model ----
(***************************************************************************)
(* HLS/AV1 packaging pipeline of encode_hls_av1.py: probe, subtitle        *)
(* extraction cascade, audio packaging cascade, master manifest header,    *)
(* video ladder with progressive manifest appends.                         *)
(*                                                                         *)
(* External processes (ffprobe, ffmpeg) are the environment: every         *)
(* invocation is one step whose exit status and effect on the output file  *)
(* are chosen nondeterministically.  Language/title tags and the progress  *)
(* display are left out: no modelled decision reads them.                  *)
(***************************************************************************)
EXTENDS Integers, Sequences, FiniteSets, TLC

VARIABLES
    input_files,    \* module-level list built from sys.argv / INPUT_DIR.glob
    fi,             \* position of main's "for file in input_files" (1-based)
    pc,             \* control point of main and of the function it is inside
    streams,        \* result of ffprobe_streams for the current file
    src_w, src_h,   \* result of get_video_resolution
    si,             \* position in extract_all_subs' loop over subs
    extracted,      \* extract_all_subs' result list
    ai,             \* position in generate_audio_playlists' loop
    a_codec,        \* generate_audio_playlists' local "codec"
    a_bitrate,      \* generate_audio_playlists' local "bitrate"
    audio_entries,  \* generate_audio_playlists' result list
    ri,             \* position in main's loop over the sorted LADDER
    fs_master,      \* output/<stem>/master.m3u8, as a sequence of lines
    fs_srt,         \* intermediate .srt files: <<stem, index>> -> size class
    out_dirs,       \* stems whose output/<stem> directory exists
    invoked,        \* encoder commands issued for the subtitle or audio track
                    \* in hand, or for the ladder of the file in hand
    mon,            \* one call of run_ffmpeg_with_progress: its locals, the
                    \* process it started and how the call ended
    scan            \* scan_to_encode.py: its listing of INPUT_DIR, the turn
                    \* of its loop, the output directories it started with

vars == <<input_files, fi, pc, streams, src_w, src_h, si, extracted, ai,
          a_codec, a_bitrate, audio_entries, ri, fs_master, fs_srt, out_dirs,
          invoked, mon, scan>>

----------------------------------------------------------------------------
(* Bounds of the model *)

\* longest probe result in the single-input specification
MaxStreams == 3
\* most lines the encoder writes to its pipe in one monitored run
MaxLines == 3
\* longest probe result in the batch specification
MaxBatchStreams == 2
\* most files INPUT_DIR.glob("*") returns in the batch specification
MaxFiles == 2
\* tallest source in the ladder specification
MaxSrcH == 540

----------------------------------------------------------------------------
(* Configuration block, encode_hls_av1.py lines 7-25 *)

LADDER ==
    [l \in {"480p", "720p", "1080p", "1440p", "2160p"} |->
        CASE l = "480p"  -> 854
          [] l = "720p"  -> 1280
          [] l = "1080p" -> 1920
          [] l = "1440p" -> 2560
          [] l = "2160p" -> 3840]

BITRATES ==
    [l \in {"480p", "720p", "1080p", "1440p", "2160p"} |->
        CASE l = "480p"  -> "750k"
          [] l = "720p"  -> "1500k"
          [] l = "1080p" -> "3500k"
          [] l = "1440p" -> "6000k"
          [] l = "2160p" -> "12000k"]

AUDIO_BITRATE == "128k"

UNSUPPORTED == {"hdmv_pgs_subtitle", "dvd_subtitle", "xsub", "dvb_subtitle"}

\* exit statuses of an external process: 0, or non-zero
ExitCodes == {0, 1}

\* what a path of the file system holds
FileStates == {"missing", "empty", "data"}

----------------------------------------------------------------------------
(* Input files and probe results *)

Files ==
    { [stem |-> "a", ext |-> "mkv"],
      [stem |-> "a", ext |-> "mp4"],
      [stem |-> "b", ext |-> "mkv"] }

Stems == { f.stem : f \in Files }

\* Path.stem
Stem(file) == file.stem

\* the value of a key the prober's JSON does not hold for a stream
Absent == "(absent)"

VideoStream(w, h) ==
    [codec_type |-> "video", codec_name |-> "h264", width |-> w, height |-> h]

AudioStream(c) ==
    [codec_type |-> "audio", codec_name |-> c, width |-> 0, height |-> 0]

SubtitleStream(c) ==
    [codec_type |-> "subtitle", codec_name |-> c, width |-> 0, height |-> 0]

\* source sizes the prober reports in the single-input specification
Dims == { <<1920, 1080>>, <<1280, 719>>, <<1000, 563>> }

AudioCodecs == {"aac", "DTS", "mp3"}

SubCodecs == {"subrip", "hdmv_pgs_subtitle"}

StreamKinds ==
    { VideoStream(d[1], d[2]) : d \in Dims }
      \cup { AudioStream(c) : c \in AudioCodecs }
      \cup { SubtitleStream(c) : c \in SubCodecs }

\* the prober numbers the streams of a container 0, 1, 2, ...
Indexed(kinds) ==
    [i \in 1..Len(kinds) |->
        [index |-> i - 1,
         codec_type |-> kinds[i].codec_type,
         codec_name |-> kinds[i].codec_name,
         width |-> kinds[i].width,
         height |-> kinds[i].height]]

SeqsUpTo(S, n) == UNION { [1..k -> S] : k \in 0..n }

StreamLists == { Indexed(ks) : ks \in SeqsUpTo(StreamKinds, MaxStreams) }

\* probe results of the batch specification
BatchKinds ==
    { VideoStream(1000, 563), AudioStream("aac"), SubtitleStream("subrip"),
      SubtitleStream("dvd_subtitle") }

BatchStreamLists ==
    { Indexed(ks) : ks \in SeqsUpTo(BatchKinds, MaxBatchStreams) }

\* probe results of the ladder specification: one video stream, its width
\* below, at and above every rung, its height anything up to MaxSrcH
SrcWidths ==
    { 640, 853, 854, 855, 1000, 1076, 1220, 1280, 1281, 1920, 1921, 2560,
      3000, 3840, 3841, 4096 }

\* the probe result of spec section 8: 1920x1080 video, aac then dts audio,
\* one subrip subtitle, in any container order
ScenarioKinds ==
    { VideoStream(1920, 1080), AudioStream("aac"), AudioStream("dts"),
      SubtitleStream("subrip") }

ScenarioStreamLists ==
    { Indexed(ks) : ks \in
        { q \in [1..4 -> ScenarioKinds] :
            /\ \A i, j \in 1..4 : i /= j => q[i] /= q[j]
            /\ \A i, j \in 1..4 :
                   (q[i].codec_name = "aac" /\ q[j].codec_name = "dts") => i < j } }

LadderStreamLists ==
    { Indexed(<< VideoStream(w, h) >>) : w \in SrcWidths, h \in 1..MaxSrcH }

----------------------------------------------------------------------------
(* Pure functions of encode_hls_av1.py *)

Audios(ss) == SelectSeq(ss, LAMBDA s : s.codec_type = "audio")

Subs(ss) == SelectSeq(ss, LAMBDA s : s.codec_type = "subtitle")

\* the codec_type test left out: every stream taken for a video stream
StreamsUnfiltered(ss) == ss

Videos(ss) == SelectSeq(ss, LAMBDA s : s.codec_type = "video")

\* get_video_resolution raises RuntimeError when no stream is a video stream
HasVideo(ss) == Videos(ss) /= << >>

\* get_video_resolution: width and height of the first video stream
get_video_resolution(ss) == << Videos(ss)[1].width, Videos(ss)[1].height >>

\* the letters str.lower changes, and what it changes them to
Uppers ==
    << "A", "B", "C", "D", "E", "F", "G", "H", "I", "J", "K", "L", "M",
       "N", "O", "P", "Q", "R", "S", "T", "U", "V", "W", "X", "Y", "Z" >>

Lowers ==
    << "a", "b", "c", "d", "e", "f", "g", "h", "i", "j", "k", "l", "m",
       "n", "o", "p", "q", "r", "s", "t", "u", "v", "w", "x", "y", "z" >>

\* codec names in lower case, as sequences of characters
BaseSpellings ==
    { << >>,
      << "a", "a", "c" >>, << "a", "c", "3" >>, << "e", "a", "c", "3" >>,
      << "t", "r", "u", "e", "h", "d" >>,
      << "d", "t", "s" >>, << "d", "t", "s", "-", "h", "d" >>,
      << "d", "t", "s", "-", "m", "a" >>,
      << "d", "t", "s", "_", "h", "d", "_", "m", "a" >>,
      << "m", "p", "3" >>, << "f", "l", "a", "c" >>, << "a", "c", "4" >>,
      << "d", "t", "s", "h", "d" >> }

\* a character in either letter case
BothCases(ch) ==
    {ch} \cup { Uppers[k] : k \in { n \in 1..26 : Lowers[n] = ch } }

\* a lower-case name in every letter case
RECURSIVE CaseVariants(_)
CaseVariants(b) ==
    IF b = << >> THEN { << >> }
    ELSE { << ch >> \o rest : ch \in BothCases(Head(b)),
                              rest \in CaseVariants(Tail(b)) }

\* every way a container can spell these names
CodecSpellings == UNION { CaseVariants(b) : b \in BaseSpellings }

\* the string of a sequence of characters
RECURSIVE Join(_)
Join(chars) == IF chars = << >> THEN "" ELSE Head(chars) \o Join(Tail(chars))

\* the characters of a codec name
Spelling == [c \in { Join(sp) : sp \in CodecSpellings } |->
                CHOOSE sp \in CodecSpellings : Join(sp) = c]

\* str.lower on one character
LowerChar(ch) ==
    IF \E k \in 1..26 : Uppers[k] = ch
    THEN Lowers[CHOOSE k \in 1..26 : Uppers[k] = ch]
    ELSE ch

\* the conversion left out: the name compared as the prober spelled it
LowerSkipped(c) == c

\* str.lower: every character of the name converted
Lower(c) == Join([i \in 1..Len(Spelling[c]) |-> LowerChar(Spelling[c][i])])

\* stream.get(key, default)
Get(stream, key, default) ==
    IF key \in DOMAIN stream /\ stream[key] /= Absent
    THEN stream[key] ELSE default

select_audio_codec(stream) ==
    LET codec == Lower(Get(stream, "codec_name", "")) IN
    IF codec \in {"aac", "ac3", "eac3"}
        THEN [codec |-> "copy", bitrate |-> "None"]
    ELSE IF codec = "truehd"
        THEN [codec |-> "eac3", bitrate |-> "1536k"]
    ELSE IF codec \in {"dts", "dts_hd_ma", "dts-ma", "dts-hd"}
        THEN [codec |-> "eac3", bitrate |-> "896k"]
    ELSE [codec |-> "eac3", bitrate |-> "640k"]

\* probe results of the codec specification: a video stream and one audio
\* stream whose codec name is spelled in any letter case, or is not reported
CodecStreamLists ==
    { Indexed(<< VideoStream(1000, 563), AudioStream(c) >>) :
          c \in DOMAIN Spelling \cup {Absent} }

\* int(bitrate.replace("k", ""))
BitrateKbps(b) ==
    CASE b = "750k"   -> 750
      [] b = "1500k"  -> 1500
      [] b = "3500k"  -> 3500
      [] b = "6000k"  -> 6000
      [] b = "12000k" -> 12000

\* round(t * h / w) in place of the truncated product
RoundScaled(h, t, w) ==
    LET q == (h * t) \div w
        r == (h * t) % w
    IN  IF 2 * r > w \/ (2 * r = w /\ q % 2 = 1) THEN q + 1 ELSE q

RECURSIVE Pow2(_)
Pow2(n) == IF n = 0 THEN 1 ELSE 2 * Pow2(n - 1)

RECURSIVE Pow2Mod(_, _)
Pow2Mod(k, m) == IF k = 0 THEN 1 % m ELSE (2 * Pow2Mod(k - 1, m)) % m

\* least a >= 1 with t * 2^a >= w: the binary exponent of the double t / w
RECURSIVE RatioExp(_, _, _)
RatioExp(t, w, a) == IF t * Pow2(a) >= w THEN a ELSE RatioExp(t, w, a + 1)

\* p with 2^p < q <= 2^(p+1), for q >= 2
RECURSIVE BelowExp(_, _)
BelowExp(q, p) == IF Pow2(p + 1) >= q THEN p ELSE BelowExp(q, p + 1)

(* int(src_h * (target_w / src_w)) in IEEE-754 double arithmetic with      *)
(* round-to-nearest-even, for 0 < target_w < src_w and src_h >= 1.  The    *)
(* quotient is rounded to 53 bits, the product is rounded again, and int   *)
(* truncates.  The result differs from the exact floor only when the exact *)
(* product is an integer q, the quotient was rounded down, and the product *)
(* rounds to the double below q.                                           *)
TruncScaled(h, t, w) ==
    LET q == (h * t) \div w
        a == RatioExp(t, w, 1)
        r == (t * Pow2Mod(52 + a, w)) % w
        odd == ((t * Pow2Mod(52 + a, 2 * w)) % (2 * w)) \div w = 1
        down == r /= 0 /\ (2 * r < w \/ (2 * r = w /\ ~odd))
        e == a - 1 + (IF q >= 2 THEN BelowExp(q, 0) ELSE -1)
        below == IF e >= 0 THEN h * r > w * Pow2(e) ELSE h * r * Pow2(-e) > w
    IN  IF (h * t) % w /= 0 THEN q
        ELSE IF down /\ below THEN q - 1
        ELSE q

compute_scaled_size_from_width(sw, sh, target_w) ==
    IF target_w >= sw THEN << sw, sh >>
    ELSE LET scaled_h == TruncScaled(sh, target_w, sw) IN
         << target_w, IF scaled_h % 2 /= 0 THEN scaled_h + 1 ELSE scaled_h >>

\* sorted(LADDER.items()) without its key: the order of the label strings
SortByLabel(ls) ==
    SelectSeq(<< "1080p", "1440p", "2160p", "480p", "720p" >>,
              LAMBDA l : l \in ls)

\* sorted(LADDER.items(), key=lambda x: x[1]): the labels by ascending width
RECURSIVE SortByWidth(_)
SortByWidth(ls) ==
    IF ls = {} THEN << >>
    ELSE LET first == CHOOSE l \in ls : \A m \in ls : LADDER[l] <= LADDER[m]
         IN  << first >> \o SortByWidth(ls \ {first})

\* sorted(..., reverse=True)
DescendingLadder == << "2160p", "1440p", "1080p", "720p", "480p" >>

SortedLadder == SortByWidth(DOMAIN LADDER)

----------------------------------------------------------------------------
(* Lines of master.m3u8 *)

Line(tag, type, default, index, label, bandwidth, w, h) ==
    [tag |-> tag, type |-> type, default |-> default, autoselect |-> default,
     index |-> index, label |-> label, bandwidth |-> bandwidth,
     w |-> w, h |-> h]

ExtM3U == Line("#EXTM3U", "", "", -1, "", 0, 0, 0)

Blank == Line("", "", "", -1, "", 0, 0, 0)

\* the default chosen by the stream's own index (script.py line 187)
AudioLineByStreamIndex(idx, a) ==
    [Line("#EXT-X-MEDIA", "AUDIO", "", a.index, "", 0, 0, 0)
        EXCEPT !.default    = IF a.index = 0 THEN "YES" ELSE "NO",
               !.autoselect = IF a.index = 0 THEN "YES" ELSE "NO"]

\* #EXT-X-MEDIA:TYPE=AUDIO,...,DEFAULT=..,AUTOSELECT=..,URI=<playlist of a>
AudioLine(idx, a) ==
    [Line("#EXT-X-MEDIA", "AUDIO", "", a.index, "", 0, 0, 0)
        EXCEPT !.default    = IF idx = 0 THEN "YES" ELSE "NO",
               !.autoselect = IF idx = 0 THEN "YES" ELSE "NO"]

\* #EXT-X-MEDIA:TYPE=SUBTITLES,...,DEFAULT=NO,AUTOSELECT=NO,FORCED=NO,URI=..
SubtitleLine(s) == Line("#EXT-X-MEDIA", "SUBTITLES", "NO", s.index, "", 0, 0, 0)

\* #EXT-X-STREAM-INF:BANDWIDTH=..,RESOLUTION=WxH,AUDIO="audio",SUBTITLES="subs"
StreamInfLine(entry) ==
    Line("#EXT-X-STREAM-INF", "", "", -1, entry.label, entry.bandwidth,
         entry.w, entry.h)

\* the playlist path of the rung, relative to the manifest's directory
UriLine(entry) == Line("URI", "", "", -1, entry.label, 0, 0, 0)

\* write_master_header: what open(master_path, "w") and the writes leave
MasterHeader(audio, subtitles) ==
    << ExtM3U, Blank >>
      \o [i \in 1..Len(audio) |-> AudioLine(i - 1, audio[i])]
      \o << Blank >>
      \o [i \in 1..Len(subtitles) |-> SubtitleLine(subtitles[i])]
      \o << Blank >>

\* the file opened in mode "a": the header lands after what the file held
HeaderAppended(content, entries, subtitles) ==
    content \o MasterHeader(entries, subtitles)

\* write_master_header on a manifest that holds content: open(.., "w")
\* truncates, so nothing of content is left
write_master_header(content, entries, subtitles) ==
    SubSeq(content, 1, 0) \o MasterHeader(entries, subtitles)

\* script.py: DEFAULT=YES for the entry whose own "index" field is 0
ScriptAudioLine(a) ==
    [Line("#EXT-X-MEDIA", "AUDIO", "", a.index, "", 0, 0, 0)
        EXCEPT !.default    = IF a.index = 0 THEN "YES" ELSE "NO",
               !.autoselect = IF a.index = 0 THEN "YES" ELSE "NO"]

\* script.py write_master_header, also open(.., "w")
script_write_master_header(content, entries, subtitles) ==
    SubSeq(content, 1, 0)
      \o << ExtM3U, Blank >>
      \o [i \in 1..Len(entries) |-> ScriptAudioLine(entries[i])]
      \o << Blank >>
      \o [i \in 1..Len(subtitles) |-> SubtitleLine(subtitles[i])]
      \o << Blank >>

\* the file opened in mode "w" by append_master_video: only the entry is left
MasterTruncated(content, entry) ==
    << StreamInfLine(entry), UriLine(entry), Blank >>

\* the entry written at the start of the file instead of its end
MasterPrepended(content, entry) ==
    << StreamInfLine(entry), UriLine(entry), Blank >> \o content

\* append_master_video: open(master_path, "a") keeps what the file holds
MasterAppended(content, entry) ==
    content \o << StreamInfLine(entry), UriLine(entry), Blank >>

\* the dict encode_video_quality returns
VideoEntry(label, bitrate, scaled) ==
    [label |-> label, bandwidth |-> BitrateKbps(bitrate) * 1000,
     w |-> scaled[1], h |-> scaled[2]]

\* one encoder command line and the exit status of its process
Cmd(kind, index, label, codec, bitrate, w, h, rc) ==
    [kind |-> kind, index |-> index, label |-> label, codec |-> codec,
     bitrate |-> bitrate, w |-> w, h |-> h, rc |-> rc]

----------------------------------------------------------------------------
(* run_ffmpeg_with_progress *)

RECURSIVE Gcd(_, _)
Gcd(a, b) == IF b = 0 THEN a ELSE Gcd(b, a % b)

Abs(n) == IF n < 0 THEN -n ELSE n

\* the number n/d in lowest terms with a positive denominator
Rat(n, d) ==
    LET g == Gcd(Abs(n), Abs(d))
        sgn == IF d < 0 THEN -1 ELSE 1
    IN  [n |-> (sgn * n) \div g, d |-> (sgn * d) \div g]

Zero == Rat(0, 1)

RatSub(a, b) == Rat(a.n * b.d - b.n * a.d, a.d * b.d)

RatMul(a, b) == Rat(a.n * b.n, a.d * b.d)

RatDiv(a, b) == Rat(a.n * b.d, a.d * b.n)

RatLess(a, b) == a.n * b.d < b.n * a.d

\* total_duration: None, or a number of seconds
Unknown == [known |-> FALSE, secs |-> 0]

Totals == { Unknown } \cup { [known |-> TRUE, secs |-> t] : t \in {-5, 0, 10} }

\* Python's truth value of total_duration
Truthy(total) == total.known /\ total.secs /= 0

\* time.time() when the call starts, in tenths of a second since the epoch
StartClock == 1000

\* how far time.time() moves between two lines, in tenths of a second; the
\* wall clock is not monotonic
ClockSteps == {-1, 0, 1, 3}

\* exit statuses of the process: 0, an error, killed by signal 9
ReturnCodes == {0, 1, -9}

\* lines of the pipe, stripped: a field name and the digits that follow
\* "=", or -1 when no digit follows (out_time_ms=N/A)
PipeLines ==
    { [field |-> "out_time_ms", digits |-> n] :
          n \in {-1, 0, 4000000, 10000000, 25000000} }
      \cup { [field |-> "frame", digits |-> 10],
             [field |-> "progress", digits |-> -1] }

\* out_time_re.match(line)
Matches(line) == line.field = "out_time_ms" /\ line.digits >= 0

\* the percentage without its upper bound
NotClamped(x) == x

\* min(100.0, x)
Clamped(x) == IF RatLess(Rat(100, 1), x) THEN Rat(100, 1) ELSE x

\* the exit status never tested
RaisedNever(rc) == FALSE

\* "if proc.returncode != 0: ... raise CalledProcessError(proc.returncode, cmd)"
Raised(rc) == rc /= 0

\* the locals of a call that has not started its process
NotStarted(total) ==
    [state |-> "NotStarted", started |-> 0, total_duration |-> total,
     now |-> StartClock, start |-> 0, last_print |-> 0,
     current_time |-> Zero, computed |-> FALSE,
     pct |-> Zero, speed |-> Zero, remaining |-> Zero,
     line |-> [field |-> "", digits |-> -1], nlines |-> 0,
     updates |-> 0, throttled |-> 0,
     returncode |-> 0, raised |-> 0, returned |-> FALSE]

\* subprocess.Popen(cmd, ...); start = time.time()
RunStart ==
    /\ mon.state = "NotStarted"
    /\ mon' = [mon EXCEPT !.state = "Running",
                          !.started = @ + 1,
                          !.start = mon.now]
    /\ UNCHANGED <<input_files, fi, pc, streams, src_w, src_h, si, extracted,
                   ai, a_codec, a_bitrate, audio_entries, ri, fs_master,
                   fs_srt, out_dirs, invoked, scan>>

\* lines 120-130: the values computed from a recognized line
Progress(m, line, now) ==
    LET current_time == Rat(line.digits, 1000000)
        total   == Rat(m.total_duration.secs, 1)
        pct     == IF Truthy(m.total_duration) /\ m.total_duration.secs > 0
                   THEN Clamped(RatMul(RatDiv(current_time, total), Rat(100, 1)))
                   ELSE Zero
        elapsed == Rat(now - m.start, 10)
        speed   == IF RatLess(Zero, elapsed)
                   THEN RatDiv(current_time, elapsed) ELSE Zero
        remaining == IF Truthy(m.total_duration) /\ RatLess(Zero, speed)
                     THEN RatDiv(RatSub(total, current_time), speed)
                     ELSE Zero
    IN  [m EXCEPT !.current_time = current_time,
                  !.computed = TRUE,
                  !.pct = pct,
                  !.speed = speed,
                  !.remaining = IF RatLess(remaining, Zero) THEN Zero
                                ELSE remaining]

\* lines 133-149: the display is written at most once per 0.2 s
Display(m, now) ==
    IF now - m.last_print > 2
    THEN [m EXCEPT !.updates = @ + 1, !.last_print = now]
    ELSE [m EXCEPT !.throttled = @ + 1]

\* one iteration of "for raw in proc.stdout"
RunReadLine ==
    /\ mon.state = "Running"
    /\ mon.nlines < MaxLines
    /\ \E line \in PipeLines, step \in ClockSteps :
         LET now  == mon.now + step
             read == [mon EXCEPT !.line = line, !.nlines = @ + 1, !.now = now]
         IN  mon' = IF Matches(line)
                    THEN Display(Progress(read, line, now), now)
                    ELSE read
    /\ UNCHANGED <<input_files, fi, pc, streams, src_w, src_h, si, extracted,
                   ai, a_codec, a_bitrate, audio_entries, ri, fs_master,
                   fs_srt, out_dirs, invoked, scan>>

\* end of the pipe, proc.wait(), then the raise or "return True"
RunWait ==
    /\ mon.state = "Running"
    /\ \E rc \in ReturnCodes :
         mon' = IF Raised(rc)
                THEN [mon EXCEPT !.state = "Failed", !.returncode = rc,
                                 !.raised = rc]
                ELSE [mon EXCEPT !.state = "Completed", !.returncode = rc,
                                 !.returned = TRUE]
    /\ UNCHANGED <<input_files, fi, pc, streams, src_w, src_h, si, extracted,
                   ai, a_codec, a_bitrate, audio_entries, ri, fs_master,
                   fs_srt, out_dirs, invoked, scan>>

----------------------------------------------------------------------------
(* State after the module is loaded *)

\* the directory of intermediate files: path -> "empty" or "data"
NoSrt == << >>

\* tmp_srt.exists() and tmp_srt.stat().st_size
FileState(fs, path) == IF path \in DOMAIN fs THEN fs[path] ELSE "missing"

\* the directory once path holds state; unlink is the state "missing"
FilePut(fs, path, state) ==
    [q \in (IF state = "missing" THEN DOMAIN fs \ {path}
                                 ELSE DOMAIN fs \cup {path}) |->
        IF q = path THEN state ELSE fs[q]]

\* the cleanup left out: the file stays as it was
UnlinkSkipped(fs, path) == fs

\* "if tmp_srt.exists(): tmp_srt.unlink()"
Unlinked(fs, path) == FilePut(fs, path, "missing")

NoMaster == [st \in Stems |-> << >>]

\* main before its first statement
MainInit(files) ==
    /\ input_files = files
    /\ fi = 1
    /\ pc = "main"
    /\ streams = << >>
    /\ src_w = 0
    /\ src_h = 0
    /\ si = 1
    /\ extracted = << >>
    /\ ai = 1
    /\ a_codec = ""
    /\ a_bitrate = ""
    /\ audio_entries = << >>
    /\ ri = 1
    /\ fs_master = NoMaster
    /\ fs_srt = NoSrt
    /\ out_dirs = {}
    /\ invoked = << >>

\* scan_to_encode.py is not the program that runs
NoScan == [pc |-> "off", i |-> 0, listing |-> << >>, existed |-> {}]

\* the program loaded and no encoder call in hand
InitWith(files) ==
    /\ MainInit(files)
    /\ mon = NotStarted(Unknown)
    /\ scan = NoScan

\* len(sys.argv) > 1: input_files = [Path(sys.argv[1])]
Init == \E f \in Files : InitWith(<< f >>)

\* otherwise: input_files = list(INPUT_DIR.glob("*")), distinct paths
InitBatch ==
    \E files \in SeqsUpTo(Files, MaxFiles) :
        /\ \A i, j \in DOMAIN files : i /= j => files[i] /= files[j]
        /\ InitWith(files)

InitLadder == InitWith(<< [stem |-> "a", ext |-> "mkv"] >>)

file == input_files[fi]

master_path == Stem(file)

----------------------------------------------------------------------------
(* main: the loop over input_files, the probe *)

\* "if not input_files: ... return"
MainEmpty ==
    /\ pc = "main"
    /\ input_files = << >>
    /\ pc' = "done"
    /\ UNCHANGED <<input_files, fi, streams, src_w, src_h, si, extracted, ai,
                   a_codec, a_bitrate, audio_entries, ri, fs_master, fs_srt,
                   out_dirs, invoked>>
    /\ UNCHANGED <<mon, scan>>

\* head of "for file in input_files" and the mkdir of the output tree
MainNextFile ==
    /\ pc = "main"
    /\ fi <= Len(input_files)
    /\ out_dirs' = out_dirs \cup {Stem(file)}
    /\ invoked' = << >>
    /\ pc' = "probe"
    /\ UNCHANGED <<input_files, fi, streams, src_w, src_h, si, extracted, ai,
                   a_codec, a_bitrate, audio_entries, ri, fs_master, fs_srt>>
    /\ UNCHANGED <<mon, scan>>

\* the loop is exhausted: main returns
MainReturn ==
    /\ pc = "main"
    /\ input_files /= << >>
    /\ fi > Len(input_files)
    /\ pc' = "done"
    /\ UNCHANGED <<input_files, fi, streams, src_w, src_h, si, extracted, ai,
                   a_codec, a_bitrate, audio_entries, ri, fs_master, fs_srt,
                   out_dirs, invoked>>
    /\ UNCHANGED <<mon, scan>>

\* ffprobe_streams: subprocess.run(..., check=True) raises on a non-zero
\* exit, and nothing in main catches it
FfprobeStreams(lists) ==
    /\ pc = "probe"
    /\ \E rc \in ExitCodes :
         IF rc /= 0
         THEN /\ pc' = "crashed"
              /\ UNCHANGED streams
         ELSE /\ \E ss \in lists : streams' = ss
              /\ pc' = "resolution"
    /\ UNCHANGED <<input_files, fi, src_w, src_h, si, extracted, ai, a_codec,
                   a_bitrate, audio_entries, ri, fs_master, fs_srt, out_dirs,
                   invoked>>
    /\ UNCHANGED <<mon, scan>>

\* get_video_resolution, then the call of extract_all_subs
GetVideoResolution ==
    /\ pc = "resolution"
    /\ IF HasVideo(streams)
       THEN /\ src_w' = get_video_resolution(streams)[1]
            /\ src_h' = get_video_resolution(streams)[2]
            /\ si' = 1
            /\ extracted' = << >>
            /\ pc' = "subs"
       ELSE /\ pc' = "crashed"
            /\ UNCHANGED <<src_w, src_h, si, extracted>>
    /\ UNCHANGED <<input_files, fi, streams, ai, a_codec, a_bitrate,
                   audio_entries, ri, fs_master, fs_srt, out_dirs, invoked>>
    /\ UNCHANGED <<mon, scan>>

----------------------------------------------------------------------------
(* extract_all_subs *)

subs == Subs(streams)

\* the stream the loop "for s in subs" is at
sub == subs[si]

tmp_srt == << Stem(file), sub.index >>

\* the test with the Blu-ray codec left out of the set
SkipBitmapWithoutPgs(codec) == codec \in UNSUPPORTED \ {"hdmv_pgs_subtitle"}

\* "if codec in UNSUPPORTED: ... continue"
SkipBitmap(codec) == codec \in UNSUPPORTED

\* the test without its size half
NeedsForcedIfMissing(state) == state = "missing"

\* "if not tmp_srt.exists() or tmp_srt.stat().st_size == 0"
NeedsForced(state) == state = "missing" \/ state = "empty"

\* what an ffmpeg -y run leaves at its output path: a run that exits 0 has
\* written the file; a failed run may have left it as it was
Written(rc, before, after) ==
    /\ rc = 0 => after /= "missing"
    /\ after = "missing" => before = "missing"

SubSkip ==
    /\ pc = "subs"
    /\ si <= Len(subs)
    /\ SkipBitmap(sub.codec_name)
    /\ si' = si + 1
    /\ invoked' = << >>
    /\ UNCHANGED <<input_files, fi, pc, streams, src_w, src_h, extracted, ai,
                   a_codec, a_bitrate, audio_entries, ri, fs_master, fs_srt,
                   out_dirs>>
    /\ UNCHANGED <<mon, scan>>

\* 1) "-c:s copy" into tmp_srt; a failure is only logged; then the test of
\* the file that chooses between the forced extraction and the conversion
SubCopy ==
    /\ pc = "subs"
    /\ si <= Len(subs)
    /\ ~SkipBitmap(sub.codec_name)
    /\ \E rc \in ExitCodes, after \in FileStates :
         /\ Written(rc, FileState(fs_srt, tmp_srt), after)
         /\ fs_srt' = FilePut(fs_srt, tmp_srt, after)
         /\ invoked' = << Cmd("sub_copy", sub.index, "", "copy", "None", 0, 0, rc) >>
         /\ pc' = IF NeedsForced(after) THEN "sub_forced" ELSE "sub_vtt"
    /\ UNCHANGED <<input_files, fi, streams, src_w, src_h, si, extracted, ai,
                   a_codec, a_bitrate, audio_entries, ri, fs_master, out_dirs>>
    /\ UNCHANGED <<mon, scan>>

\* 2) "-c:s srt" into tmp_srt; on failure unlink tmp_srt and continue
SubForced ==
    /\ pc = "sub_forced"
    /\ \E rc \in ExitCodes, after \in FileStates :
         /\ Written(rc, FileState(fs_srt, tmp_srt), after)
         /\ invoked' = Append(invoked,
                Cmd("sub_forced", sub.index, "", "srt", "None", 0, 0, rc))
         /\ IF rc /= 0
            THEN /\ fs_srt' = Unlinked(FilePut(fs_srt, tmp_srt, after), tmp_srt)
                 /\ si' = si + 1
                 /\ pc' = "subs"
            ELSE /\ fs_srt' = FilePut(fs_srt, tmp_srt, after)
                 /\ si' = si
                 /\ pc' = "sub_vtt"
    /\ UNCHANGED <<input_files, fi, streams, src_w, src_h, extracted, ai,
                   a_codec, a_bitrate, audio_entries, ri, fs_master, out_dirs>>
    /\ UNCHANGED <<mon, scan>>

\* the entry appended whatever the exit status of the track's last command
AppendedAlways(entries, rc, index) == Append(entries, [index |-> index])

\* the "continue" of a failed track skips the append at the end of the body
Appended(entries, rc, index) ==
    IF rc = 0 THEN Append(entries, [index |-> index]) ELSE entries

\* 3) tmp_srt -> out_vtt; tmp_srt is unlinked on both outcomes, the entry is
\* appended on success only.  A run whose input file is missing fails.
SubConvert ==
    /\ pc = "sub_vtt"
    /\ \E rc \in ExitCodes :
         /\ FileState(fs_srt, tmp_srt) = "missing" => rc /= 0
         /\ invoked' = Append(invoked,
                Cmd("sub_vtt", sub.index, "", "webvtt", "None", 0, 0, rc))
         /\ extracted' = Appended(extracted, rc, sub.index)
    /\ fs_srt' = Unlinked(fs_srt, tmp_srt)
    /\ si' = si + 1
    /\ pc' = "subs"
    /\ UNCHANGED <<input_files, fi, streams, src_w, src_h, ai, a_codec,
                   a_bitrate, audio_entries, ri, fs_master, out_dirs>>
    /\ UNCHANGED <<mon, scan>>

\* "return extracted", then the call of generate_audio_playlists
SubsReturn ==
    /\ pc = "subs"
    /\ si > Len(subs)
    /\ ai' = 1
    /\ audio_entries' = << >>
    /\ invoked' = << >>
    /\ pc' = "audio"
    /\ UNCHANGED <<input_files, fi, streams, src_w, src_h, si, extracted,
                   a_codec, a_bitrate, ri, fs_master, fs_srt, out_dirs>>
    /\ UNCHANGED <<mon, scan>>

----------------------------------------------------------------------------
(* generate_audio_playlists *)

audio_streams == Audios(streams)

\* the stream the loop "for s in audio_streams" is at
audio == audio_streams[ai]

\* lines 384-386: the strategy for this track
SelectAudioCodec ==
    /\ pc = "audio"
    /\ ai <= Len(audio_streams)
    /\ a_codec' = select_audio_codec(audio).codec
    /\ a_bitrate' = select_audio_codec(audio).bitrate
    /\ invoked' = << >>
    /\ pc' = IF select_audio_codec(audio).codec = "copy"
             THEN "audio_copy" ELSE "audio_encode"
    /\ UNCHANGED <<input_files, fi, streams, src_w, src_h, si, extracted, ai,
                   audio_entries, ri, fs_master, fs_srt, out_dirs>>
    /\ UNCHANGED <<mon, scan>>

\* the fallback that forgets "bitrate = AUDIO_BITRATE"
CopyFallbackNoBitrate == [codec |-> "aac", bitrate |-> "None"]

\* what a failed copy falls back to
CopyFallback == [codec |-> "aac", bitrate |-> AUDIO_BITRATE]

\* "if codec == 'copy'": build_cmd("copy"); on failure fall back
AudioCopy ==
    /\ pc = "audio_copy"
    /\ \E rc \in ExitCodes :
         /\ invoked' = Append(invoked,
                Cmd("audio", audio.index, "", "copy", "None", 0, 0, rc))
         /\ IF rc = 0
            THEN /\ audio_entries' = Append(audio_entries, [index |-> audio.index])
                 /\ ai' = ai + 1
                 /\ pc' = "audio"
                 /\ UNCHANGED <<a_codec, a_bitrate>>
            ELSE /\ a_codec' = CopyFallback.codec
                 /\ a_bitrate' = CopyFallback.bitrate
                 /\ pc' = "audio_encode"
                 /\ UNCHANGED <<audio_entries, ai>>
    /\ UNCHANGED <<input_files, fi, streams, src_w, src_h, si, extracted, ri,
                   fs_master, fs_srt, out_dirs>>
    /\ UNCHANGED <<mon, scan>>

\* "if not success": build_cmd(codec, bitrate); on failure skip the track
AudioEncode ==
    /\ pc = "audio_encode"
    /\ \E rc \in ExitCodes :
         /\ invoked' = Append(invoked,
                Cmd("audio", audio.index, "", a_codec, a_bitrate, 0, 0, rc))
         /\ audio_entries' = Appended(audio_entries, rc, audio.index)
    /\ ai' = ai + 1
    /\ pc' = "audio"
    /\ UNCHANGED <<input_files, fi, streams, src_w, src_h, si, extracted,
                   a_codec, a_bitrate, ri, fs_master, fs_srt, out_dirs>>
    /\ UNCHANGED <<mon, scan>>

\* "return entries"
AudioReturn ==
    /\ pc = "audio"
    /\ ai > Len(audio_streams)
    /\ invoked' = << >>
    /\ pc' = "header"
    /\ UNCHANGED <<input_files, fi, streams, src_w, src_h, si, extracted, ai,
                   a_codec, a_bitrate, audio_entries, ri, fs_master, fs_srt,
                   out_dirs>>
    /\ UNCHANGED <<mon, scan>>

----------------------------------------------------------------------------
(* main: manifest header and video ladder *)

\* write_master_header; an OSError of mkdir or open leaves the file as it
\* was and is not caught by main
WriteMasterHeader ==
    /\ pc = "header"
    /\ \E ok \in BOOLEAN :
         IF ok
         THEN /\ fs_master' = [fs_master EXCEPT
                    ![master_path] =
                        write_master_header(fs_master[master_path],
                                            audio_entries, extracted)]
              /\ ri' = 1
              /\ pc' = "video"
         ELSE /\ pc' = "crashed"
              /\ UNCHANGED <<fs_master, ri>>
    /\ UNCHANGED <<input_files, fi, streams, src_w, src_h, si, extracted, ai,
                   a_codec, a_bitrate, audio_entries, fs_srt, out_dirs,
                   invoked>>
    /\ UNCHANGED <<mon, scan>>

\* the rung the loop over sorted(LADDER.items()) is at
label == SortedLadder[ri]

target_w == LADDER[label]

\* the loop without its "continue"
RungExcludedNever(tw, sw) == FALSE

\* "if target_w > src_w: continue"
RungExcluded(tw, sw) == tw > sw

\* the entry appended whatever the encoder's exit status
RungAppendedAlways(rc) == TRUE

\* "except Exception: ... continue" skips append_master_video
RungAppended(rc) == rc = 0

RungSkip ==
    /\ pc = "video"
    /\ ri <= Len(SortedLadder)
    /\ RungExcluded(target_w, src_w)
    /\ ri' = ri + 1
    /\ UNCHANGED <<input_files, fi, pc, streams, src_w, src_h, si, extracted,
                   ai, a_codec, a_bitrate, audio_entries, fs_master, fs_srt,
                   out_dirs, invoked>>
    /\ UNCHANGED <<mon, scan>>

\* encode_video_quality, and append_master_video when it returned an entry
RungEncode ==
    /\ pc = "video"
    /\ ri <= Len(SortedLadder)
    /\ ~RungExcluded(target_w, src_w)
    /\ LET scaled == compute_scaled_size_from_width(src_w, src_h, target_w)
           entry  == VideoEntry(label, BITRATES[label], scaled)
       IN  \E rc \in ExitCodes :
             /\ invoked' = Append(invoked,
                    Cmd("video", -1, label, "libsvtav1", BITRATES[label],
                        scaled[1], scaled[2], rc))
             /\ fs_master' = IF RungAppended(rc)
                             THEN [fs_master EXCEPT ![master_path] =
                                      MasterAppended(fs_master[master_path], entry)]
                             ELSE fs_master
    /\ ri' = ri + 1
    /\ UNCHANGED <<input_files, fi, pc, streams, src_w, src_h, si, extracted,
                   ai, a_codec, a_bitrate, audio_entries, fs_srt, out_dirs>>
    /\ UNCHANGED <<mon, scan>>

\* a loop that takes the same input again instead of the next one
SameInput(i) == i

\* "for file in input_files": the next turn takes the next element
NextInput(i) == i + 1

\* the ladder is exhausted: "Terminé", next file
LadderDone ==
    /\ pc = "video"
    /\ ri > Len(SortedLadder)
    /\ fi' = NextInput(fi)
    /\ pc' = "main"
    /\ UNCHANGED <<input_files, streams, src_w, src_h, si, extracted, ai,
                   a_codec, a_bitrate, audio_entries, ri, fs_master, fs_srt,
                   out_dirs, invoked>>
    /\ UNCHANGED <<mon, scan>>

----------------------------------------------------------------------------
(* script.py: the variant whose ladder is keyed by height *)

\* script.py LADDER: label -> target height
SCRIPT_LADDER ==
    [l \in {"480p", "720p", "1080p", "1440p", "2160p"} |->
        CASE l = "480p"  -> 480
          [] l = "720p"  -> 720
          [] l = "1080p" -> 1080
          [] l = "1440p" -> 1440
          [] l = "2160p" -> 2160]

\* sorted(LADDER.items(), key=lambda x: int(x[1]))
RECURSIVE ScriptSortByHeight(_)
ScriptSortByHeight(ls) ==
    IF ls = {} THEN << >>
    ELSE LET first == CHOOSE l \in ls :
                          \A m \in ls : SCRIPT_LADDER[l] <= SCRIPT_LADDER[m]
         IN  << first >> \o ScriptSortByHeight(ls \ {first})

ScriptSortedLadder == ScriptSortByHeight(DOMAIN SCRIPT_LADDER)

\* round(n / d) of Python 3: to the nearest integer, a tie to the even one
ScriptRound(n, d) ==
    LET q == n \div d
        r == n % d
    IN  IF 2 * r < d THEN q
        ELSE IF 2 * r > d THEN q + 1
        ELSE IF q % 2 = 0 THEN q ELSE q + 1

\* compute_scaled_width
compute_scaled_width(sw, sh, target_h) ==
    LET w == ScriptRound(target_h * sw, sh)
    IN  IF w % 2 = 1 THEN w + 1 ELSE w

\* probe results of the script.py specification
ScriptKinds ==
    { VideoStream(1280, 720), AudioStream("aac"), SubtitleStream("subrip") }

ScriptStreamLists ==
    { Indexed(ks) : ks \in SeqsUpTo(ScriptKinds, MaxStreams) }

\* python script.py <input_file>: main(sys.argv[1]) before its first statement
InitScript ==
    /\ \E f \in Files : input_files = << f >>
    /\ fi = 1
    /\ pc = "s_main"
    /\ streams = << >>
    /\ src_w = 0
    /\ src_h = 0
    /\ si = 1
    /\ extracted = << >>
    /\ ai = 1
    /\ a_codec = ""
    /\ a_bitrate = ""
    /\ audio_entries = << >>
    /\ ri = 1
    /\ fs_master = NoMaster
    /\ fs_srt = NoSrt
    /\ out_dirs = {}
    /\ invoked = << >>
    /\ mon = NotStarted(Unknown)
    /\ scan = NoScan

\* what a failing run(cmd) does: subprocess.run(cmd, check=True) raises
\* CalledProcessError, and script.py holds no try statement
ScriptRaises(rc) == rc /= 0

\* "if not input_path.exists(): ... return", else the four ensure_dirs
ScriptMain ==
    /\ pc = "s_main"
    /\ \E exists \in BOOLEAN :
         IF exists
         THEN /\ out_dirs' = out_dirs \cup {Stem(file)}
              /\ pc' = "s_probe"
         ELSE /\ pc' = "done"
              /\ UNCHANGED out_dirs
    /\ UNCHANGED <<input_files, fi, streams, src_w, src_h, si, extracted, ai,
                   a_codec, a_bitrate, audio_entries, ri, fs_master, fs_srt,
                   invoked>>
    /\ UNCHANGED <<mon, scan>>

\* ffprobe_streams: subprocess.run(..., check=True)
ScriptProbe ==
    /\ pc = "s_probe"
    /\ \E rc \in ExitCodes :
         IF rc /= 0
         THEN /\ pc' = "crashed"
              /\ UNCHANGED streams
         ELSE /\ \E ss \in ScriptStreamLists : streams' = ss
              /\ pc' = "s_resolution"
    /\ UNCHANGED <<input_files, fi, src_w, src_h, si, extracted, ai, a_codec,
                   a_bitrate, audio_entries, ri, fs_master, fs_srt, out_dirs,
                   invoked>>
    /\ UNCHANGED <<mon, scan>>

\* get_video_resolution: RuntimeError when no stream is a video stream
ScriptResolution ==
    /\ pc = "s_resolution"
    /\ IF HasVideo(streams)
       THEN /\ src_w' = get_video_resolution(streams)[1]
            /\ src_h' = get_video_resolution(streams)[2]
            /\ si' = 1
            /\ extracted' = << >>
            /\ pc' = "s_subs"
       ELSE /\ pc' = "crashed"
            /\ UNCHANGED <<src_w, src_h, si, extracted>>
    /\ UNCHANGED <<input_files, fi, streams, ai, a_codec, a_bitrate,
                   audio_entries, ri, fs_master, fs_srt, out_dirs, invoked>>
    /\ UNCHANGED <<mon, scan>>

\* extract_all_subs, one turn of "for i, s in enumerate(subs)": run(cmd),
\* then extracted.append with the position i as index
ScriptSub ==
    /\ pc = "s_subs"
    /\ si <= Len(subs)
    /\ \E rc \in ExitCodes :
         /\ invoked' = Append(invoked,
                Cmd("sub_vtt", si - 1, "", "webvtt", "None", 0, 0, rc))
         /\ IF ScriptRaises(rc)
            THEN /\ pc' = "crashed"
                 /\ UNCHANGED <<si, extracted>>
            ELSE /\ extracted' = Appended(extracted, rc, si - 1)
                 /\ si' = si + 1
                 /\ pc' = "s_subs"
    /\ UNCHANGED <<input_files, fi, streams, src_w, src_h, ai, a_codec,
                   a_bitrate, audio_entries, ri, fs_master, fs_srt, out_dirs>>
    /\ UNCHANGED <<mon, scan>>

\* "return extracted", then the call of generate_audio_playlists
ScriptSubsReturn ==
    /\ pc = "s_subs"
    /\ si > Len(subs)
    /\ ai' = 1
    /\ audio_entries' = << >>
    /\ pc' = "s_audio"
    /\ UNCHANGED <<input_files, fi, streams, src_w, src_h, si, extracted,
                   a_codec, a_bitrate, ri, fs_master, fs_srt, out_dirs,
                   invoked>>
    /\ UNCHANGED <<mon, scan>>

\* generate_audio_playlists, one turn of "for i, s in enumerate(audios)":
\* always "-c:a aac -b:a AUDIO_BITRATE"
ScriptAudio ==
    /\ pc = "s_audio"
    /\ ai <= Len(audio_streams)
    /\ \E rc \in ExitCodes :
         /\ invoked' = Append(invoked,
                Cmd("audio", ai - 1, "", "aac", AUDIO_BITRATE, 0, 0, rc))
         /\ IF ScriptRaises(rc)
            THEN /\ pc' = "crashed"
                 /\ UNCHANGED <<ai, audio_entries>>
            ELSE /\ audio_entries' = Appended(audio_entries, rc, ai - 1)
                 /\ ai' = ai + 1
                 /\ pc' = "s_audio"
    /\ UNCHANGED <<input_files, fi, streams, src_w, src_h, si, extracted,
                   a_codec, a_bitrate, ri, fs_master, fs_srt, out_dirs>>
    /\ UNCHANGED <<mon, scan>>

\* "return results"
ScriptAudioReturn ==
    /\ pc = "s_audio"
    /\ ai > Len(audio_streams)
    /\ pc' = "s_header"
    /\ UNCHANGED <<input_files, fi, streams, src_w, src_h, si, extracted, ai,
                   a_codec, a_bitrate, audio_entries, ri, fs_master, fs_srt,
                   out_dirs, invoked>>
    /\ UNCHANGED <<mon, scan>>

\* write_master_header; an OSError of open is not caught
ScriptHeader ==
    /\ pc = "s_header"
    /\ \E ok \in BOOLEAN :
         IF ok
         THEN /\ fs_master' = [fs_master EXCEPT
                    ![master_path] =
                        script_write_master_header(fs_master[master_path],
                                                   audio_entries, extracted)]
              /\ ri' = 1
              /\ pc' = "s_video"
         ELSE /\ pc' = "crashed"
              /\ UNCHANGED <<fs_master, ri>>
    /\ UNCHANGED <<input_files, fi, streams, src_w, src_h, si, extracted, ai,
                   a_codec, a_bitrate, audio_entries, fs_srt, out_dirs,
                   invoked>>
    /\ UNCHANGED <<mon, scan>>

\* the rung the loop over the sorted ladder is at, and its target height
script_label == ScriptSortedLadder[ri]

t_h == SCRIPT_LADDER[script_label]

\* "if t_h > src_h: continue"
ScriptRungSkip ==
    /\ pc = "s_video"
    /\ ri <= Len(ScriptSortedLadder)
    /\ t_h > src_h
    /\ ri' = ri + 1
    /\ UNCHANGED <<input_files, fi, pc, streams, src_w, src_h, si, extracted,
                   ai, a_codec, a_bitrate, audio_entries, fs_master, fs_srt,
                   out_dirs, invoked>>
    /\ UNCHANGED <<mon, scan>>

\* encode_video_quality (its run(cmd)), then append_master_video_entry
ScriptRungEncode ==
    /\ pc = "s_video"
    /\ ri <= Len(ScriptSortedLadder)
    /\ ~(t_h > src_h)
    /\ LET scaled == << compute_scaled_width(src_w, src_h, t_h), t_h >>
           entry  == VideoEntry(script_label, BITRATES[script_label], scaled)
       IN  \E rc \in ExitCodes :
             /\ invoked' = Append(invoked,
                    Cmd("video", -1, script_label, "libsvtav1",
                        BITRATES[script_label], scaled[1], scaled[2], rc))
             /\ IF ScriptRaises(rc)
                THEN /\ pc' = "crashed"
                     /\ UNCHANGED <<ri, fs_master>>
                ELSE /\ fs_master' =
                            IF rc = 0
                            THEN [fs_master EXCEPT ![master_path] =
                                    MasterAppended(fs_master[master_path], entry)]
                            ELSE fs_master
                     /\ ri' = ri + 1
                     /\ pc' = "s_video"
    /\ UNCHANGED <<input_files, fi, streams, src_w, src_h, si, extracted, ai,
                   a_codec, a_bitrate, audio_entries, fs_srt, out_dirs>>
    /\ UNCHANGED <<mon, scan>>

\* the ladder is exhausted: "Terminé", main returns
ScriptDone ==
    /\ pc = "s_video"
    /\ ri > Len(ScriptSortedLadder)
    /\ pc' = "done"
    /\ UNCHANGED <<input_files, fi, streams, src_w, src_h, si, extracted, ai,
                   a_codec, a_bitrate, audio_entries, ri, fs_master, fs_srt,
                   out_dirs, invoked>>
    /\ UNCHANGED <<mon, scan>>

----------------------------------------------------------------------------
(* scan_to_encode.py *)

\* INPUT_DIR.glob("*"): the files of the input directory, each once
Listings ==
    { q \in SeqsUpTo(Files, MaxFiles) :
        \A i, j \in DOMAIN q : i /= j => q[i] /= q[j] }

\* scan_to_encode.py's main before its first statement; no encoder process
\* runs yet, and any of the output directories may be there already
InitScan ==
    /\ \E q \in Listings, dirs \in SUBSET Stems :
         /\ out_dirs = dirs
         /\ scan = [pc |-> "loop", i |-> 1, listing |-> q, existed |-> dirs]
    /\ input_files = << >>
    /\ fi = 1
    /\ pc = "off"
    /\ streams = << >>
    /\ src_w = 0
    /\ src_h = 0
    /\ si = 1
    /\ extracted = << >>
    /\ ai = 1
    /\ a_codec = ""
    /\ a_bitrate = ""
    /\ audio_entries = << >>
    /\ ri = 1
    /\ fs_master = NoMaster
    /\ fs_srt = NoSrt
    /\ invoked = << >>
    /\ mon = NotStarted(Unknown)

\* the file the loop "for file in INPUT_DIR.glob('*')" is at
scan_file == scan.listing[scan.i]

\* "if output_path.exists(): print('Déjà encodé'); continue"
ScanSkip ==
    /\ scan.pc = "loop"
    /\ scan.i <= Len(scan.listing)
    /\ Stem(scan_file) \in out_dirs
    /\ scan' = [scan EXCEPT !.i = @ + 1]
    /\ UNCHANGED <<input_files, fi, pc, streams, src_w, src_h, si, extracted,
                   ai, a_codec, a_bitrate, audio_entries, ri, fs_master,
                   fs_srt, out_dirs, invoked, mon>>

\* "Nouvel encodage", subprocess.run(["python3", "encode_hls_av1.py"]): the
\* command line names no file, so the new process has len(sys.argv) = 1 and
\* builds input_files from its own glob of the input directory
ScanLaunch ==
    /\ scan.pc = "loop"
    /\ scan.i <= Len(scan.listing)
    /\ Stem(scan_file) \notin out_dirs
    /\ scan' = [scan EXCEPT !.pc = "child"]
    /\ \E q \in Listings :
         /\ { q[k] : k \in DOMAIN q } = { scan.listing[k] : k \in DOMAIN scan.listing }
         /\ input_files' = q
    /\ fi' = 1
    /\ pc' = "main"
    /\ streams' = << >>
    /\ src_w' = 0
    /\ src_h' = 0
    /\ si' = 1
    /\ extracted' = << >>
    /\ ai' = 1
    /\ a_codec' = ""
    /\ a_bitrate' = ""
    /\ audio_entries' = << >>
    /\ ri' = 1
    /\ invoked' = << >>
    /\ UNCHANGED <<fs_master, fs_srt, out_dirs, mon>>

\* subprocess.run(..., check=True) returns when the encoder process ended:
\* exit status 0 goes on with the loop, an uncaught exception in the
\* encoder is a non-zero status and raises CalledProcessError here
ScanChildExit ==
    /\ scan.pc = "child"
    /\ pc \in {"done", "crashed"}
    /\ scan' = IF pc = "done"
               THEN [scan EXCEPT !.pc = "loop", !.i = @ + 1]
               ELSE [scan EXCEPT !.pc = "crashed"]
    /\ UNCHANGED <<input_files, fi, pc, streams, src_w, src_h, si, extracted,
                   ai, a_codec, a_bitrate, audio_entries, ri, fs_master,
                   fs_srt, out_dirs, invoked, mon>>

\* the glob is exhausted: main returns
ScanReturn ==
    /\ scan.pc = "loop"
    /\ scan.i > Len(scan.listing)
    /\ scan' = [scan EXCEPT !.pc = "done"]
    /\ UNCHANGED <<input_files, fi, pc, streams, src_w, src_h, si, extracted,
                   ai, a_codec, a_bitrate, audio_entries, ri, fs_master,
                   fs_srt, out_dirs, invoked, mon>>

----------------------------------------------------------------------------
(* Specifications *)

Pipeline ==
    \/ MainNextFile
    \/ MainReturn
    \/ GetVideoResolution
    \/ SubSkip
    \/ SubCopy
    \/ SubForced
    \/ SubConvert
    \/ SubsReturn
    \/ SelectAudioCodec
    \/ AudioCopy
    \/ AudioEncode
    \/ AudioReturn
    \/ WriteMasterHeader
    \/ RungSkip
    \/ RungEncode
    \/ LadderDone

Next ==
    \/ FfprobeStreams(StreamLists)
    \/ Pipeline

NextBatch ==
    \/ MainEmpty
    \/ FfprobeStreams(BatchStreamLists)
    \/ Pipeline

NextLadder ==
    \/ FfprobeStreams(LadderStreamLists)
    \/ MainNextFile
    \/ MainReturn
    \/ GetVideoResolution
    \/ SubsReturn
    \/ AudioReturn
    \/ WriteMasterHeader
    \/ RungSkip
    \/ RungEncode
    \/ LadderDone

NextScenario ==
    \/ FfprobeStreams(ScenarioStreamLists)
    \/ MainNextFile
    \/ MainReturn
    \/ GetVideoResolution
    \/ SubCopy
    \/ SubForced
    \/ SubConvert
    \/ SubsReturn
    \/ SelectAudioCodec
    \/ AudioCopy
    \/ AudioEncode
    \/ AudioReturn
    \/ WriteMasterHeader
    \/ RungSkip
    \/ RungEncode
    \/ LadderDone

NextCodec ==
    \/ FfprobeStreams(CodecStreamLists)
    \/ MainNextFile
    \/ MainReturn
    \/ GetVideoResolution
    \/ SubsReturn
    \/ SelectAudioCodec
    \/ AudioCopy
    \/ AudioEncode
    \/ AudioReturn
    \/ WriteMasterHeader
    \/ RungSkip
    \/ RungEncode
    \/ LadderDone

NextRerun ==
    \/ FfprobeStreams(BatchStreamLists)
    \/ Pipeline

NextProgress ==
    \/ RunStart
    \/ RunReadLine
    \/ RunWait

\* one input file given on the command line
Spec == Init /\ [][Next]_vars

\* no argument: every file of the input directory, one after the other
SpecBatch == InitBatch /\ [][NextBatch]_vars

\* one input file that holds a single video stream
SpecLadder == InitLadder /\ [][NextLadder]_vars

\* one input file whose probe result is the one of spec section 8
SpecScenario == Init /\ [][NextScenario]_vars

\* one input file with one audio stream of any codec name
SpecCodec == Init /\ [][NextCodec]_vars

\* two inputs of the same name, a.mkv then a.mp4: one output directory
InitRerun ==
    InitWith(<< [stem |-> "a", ext |-> "mkv"], [stem |-> "a", ext |-> "mp4"] >>)

SpecRerun == InitRerun /\ [][NextRerun]_vars

\* one call of run_ffmpeg_with_progress, for any total duration
InitProgress ==
    /\ MainInit(<< [stem |-> "a", ext |-> "mkv"] >>)
    /\ \E total \in Totals : mon = NotStarted(total)
    /\ scan = NoScan

SpecProgress == InitProgress /\ [][NextProgress]_vars

NextScript ==
    \/ ScriptMain
    \/ ScriptProbe
    \/ ScriptResolution
    \/ ScriptSub
    \/ ScriptSubsReturn
    \/ ScriptAudio
    \/ ScriptAudioReturn
    \/ ScriptHeader
    \/ ScriptRungSkip
    \/ ScriptRungEncode
    \/ ScriptDone

\* the batch run when every step that is enabled is eventually taken: the
\* program is one sequential thread, and a step that waits for an external
\* process is taken once that process exits
SpecBatchFair == InitBatch /\ [][NextBatch]_vars /\ WF_vars(NextBatch)

\* the same for the two inputs a.mkv, a.mp4
SpecRerunFair == InitRerun /\ [][NextRerun]_vars /\ WF_vars(NextRerun)

NextScan ==
    \/ ScanSkip
    \/ ScanLaunch
    \/ ScanChildExit
    \/ ScanReturn
    \/ FfprobeStreams(BatchStreamLists)
    \/ Pipeline

\* one run of scan_to_encode.py and of the encoder processes it starts
SpecScan == InitScan /\ [][NextScan]_vars

\* one run of script.py on the file named by its argument
SpecScript == InitScript /\ [][NextScript]_vars

----------------------------------------------------------------------------
(* Reading the manifest and the command log *)

\* the manifest of the file given on the command line
master == fs_master[Stem(input_files[1])]

TagIs(line, tag) == line.tag = tag

IsMedia(line) == TagIs(line, "#EXT-X-MEDIA")

IsStreamInf(line) == TagIs(line, "#EXT-X-STREAM-INF")

MediaLines(m, type) == SelectSeq(m, LAMBDA l : IsMedia(l) /\ l.type = type)

StreamInfLines(m) == SelectSeq(m, IsStreamInf)

\* m starts with the header write_master_header writes for these lists
StartsWithHeader(m, entries, subtitles) ==
    LET hd == MasterHeader(entries, subtitles) IN
    /\ Len(m) >= Len(hd)
    /\ SubSeq(m, 1, Len(hd)) = hd

\* the rungs of the sorted ladder before position k that fit the source
RECURSIVE ApplicableBefore(_)
ApplicableBefore(k) ==
    IF k <= 1 THEN << >>
    ELSE ApplicableBefore(k - 1) \o
         (IF LADDER[SortedLadder[k - 1]] <= src_w
          THEN << SortedLadder[k - 1] >> ELSE << >>)

LabelsOf(cmds) == [i \in 1..Len(cmds) |-> cmds[i].label]

Succeeded(cmds) == SelectSeq(cmds, LAMBDA c : c.rc = 0)

\* the three lines append_master_video writes for each command, in order
RECURSIVE BlocksOf(_)
BlocksOf(cmds) ==
    IF cmds = << >> THEN << >>
    ELSE LET c == Head(cmds)
             e == [label |-> c.label, bandwidth |-> BitrateKbps(c.bitrate) * 1000,
                   w |-> c.w, h |-> c.h]
         IN  << StreamInfLine(e), UriLine(e), Blank >> \o BlocksOf(Tail(cmds))

----------------------------------------------------------------------------
(* C1: append_master_video is never executed for a manifest before         *)
(* write_master_header has completed for it in the same run: a manifest    *)
(* that holds a stream-info line starts with the complete header of this   *)
(* run's audio and subtitle renditions and the run is in or past its       *)
(* ladder loop; and in every manifest every EXT-X-MEDIA line precedes      *)
(* every EXT-X-STREAM-INF line.                                            *)
HeaderBeforeStreamInf ==
    \A st \in Stems :
        LET m == fs_master[st] IN
        /\ \A i, j \in DOMAIN m :
               IsStreamInf(m[i]) /\ IsMedia(m[j]) => j < i
        /\ (\E i \in DOMAIN m : IsStreamInf(m[i])) =>
               /\ pc \in {"video", "main", "done"}
               /\ st = Stem(input_files[1])
               /\ StartsWithHeader(m, audio_entries, extracted)

\* a manifest with an audio line, a subtitle line and a stream-info line
HeaderBeforeStreamInfWitness ==
    /\ MediaLines(master, "AUDIO") /= << >>
    /\ MediaLines(master, "SUBTITLES") /= << >>
    /\ StreamInfLines(master) /= << >>

(* C2: in a batch, a failure of one input (prober, no video stream,        *)
(* manifest header) aborts only that input: when the program has stopped,  *)
(* no input after the one it stopped at is left unprocessed.               *)
LaterInputsProcessed ==
    pc \in {"done", "crashed"} => fi >= Len(input_files)

(* C3: a rung whose encode exits non-zero gets no manifest entry, every    *)
(* applicable rung is attempted whatever happened to the rungs before it,  *)
(* and the manifest holds, after the header, the stream-info/URI pairs of  *)
(* exactly the applicable rungs whose encode succeeded, in ladder order.   *)
FailedRungOnlySkipped ==
    (pc = "video" \/ \E i \in DOMAIN invoked : invoked[i].kind = "video") =>
        /\ pc \in {"video", "main", "done"}
        /\ LabelsOf(invoked) = ApplicableBefore(ri)
        /\ master = MasterHeader(audio_entries, extracted)
                      \o BlocksOf(Succeeded(invoked))

\* the ladder is finished, a rung failed, a later rung succeeded
FailedRungOnlySkippedWitness ==
    /\ pc = "video"
    /\ ri > Len(SortedLadder)
    /\ \E i, j \in DOMAIN invoked :
           i < j /\ invoked[i].rc /= 0 /\ invoked[j].rc = 0

IndexesOf(entries) == [i \in 1..Len(entries) |-> entries[i].index]

InEntries(entries, stream) ==
    \E i \in DOMAIN entries : entries[i].index = stream.index

\* the stream the prober numbered idx
StreamAt(idx) == streams[idx + 1]

KindsOf(cmds) == [i \in 1..Len(cmds) |-> cmds[i].kind]

(* C4 as stated, read for the headers that hold an audio entry at all:     *)
(* exactly one audio entry has DEFAULT=YES and AUTOSELECT=YES, it is the   *)
(* entry of the first audio stream in discovery order of the probed        *)
(* streams, and every other audio entry has DEFAULT=NO and AUTOSELECT=NO.  *)
DefaultIsFirstProbedAudio ==
    (master /= << >> /\ MediaLines(master, "AUDIO") /= << >>) =>
        LET al == MediaLines(master, "AUDIO") IN
        /\ Cardinality({ i \in DOMAIN al :
               al[i].default = "YES" /\ al[i].autoselect = "YES" }) = 1
        /\ \A i \in DOMAIN al :
               IF al[i].index = audio_streams[1].index
               THEN al[i].default = "YES" /\ al[i].autoselect = "YES"
               ELSE al[i].default = "NO" /\ al[i].autoselect = "NO"

(* C4 amended: once the header is written, its audio entries are those of  *)
(* the audio tracks whose encoding succeeded, in discovery order; if there *)
(* is one, the first of them, and only it, has DEFAULT=YES and             *)
(* AUTOSELECT=YES, and every other has DEFAULT=NO and AUTOSELECT=NO.       *)
DefaultIsFirstEncodedAudio ==
    master /= << >> =>
        LET al == MediaLines(master, "AUDIO") IN
        /\ IndexesOf(al) = IndexesOf(audio_entries)
        /\ \A i, j \in DOMAIN al : i < j => al[i].index < al[j].index
        /\ \A i \in DOMAIN al :
               IF i = 1
               THEN al[i].default = "YES" /\ al[i].autoselect = "YES"
               ELSE al[i].default = "NO" /\ al[i].autoselect = "NO"

\* the first audio stream was dropped and a later one carries the default
DefaultIsFirstEncodedAudioWitness ==
    /\ master /= << >>
    /\ ~InEntries(audio_entries, audio_streams[1])
    /\ \E i \in DOMAIN master :
           /\ IsMedia(master[i])
           /\ master[i].type = "AUDIO"
           /\ master[i].default = "YES"
           /\ master[i].index > audio_streams[1].index

(* C5: a subtitle stream with a bitmap-only codec is never the subject of  *)
(* an encoder command, never has an entry in extract_all_subs' list and    *)
(* never has a SUBTITLES line in the manifest; the loop goes on past it.   *)
BitmapNeverExtracted ==
    /\ \A i \in DOMAIN invoked :
           invoked[i].kind \in {"sub_copy", "sub_forced", "sub_vtt"} =>
               /\ StreamAt(invoked[i].index).codec_type = "subtitle"
               /\ StreamAt(invoked[i].index).codec_name \notin UNSUPPORTED
    /\ \A i \in DOMAIN extracted :
           StreamAt(extracted[i].index).codec_name \notin UNSUPPORTED
    /\ \A i \in DOMAIN master :
           IsMedia(master[i]) /\ master[i].type = "SUBTITLES" =>
               StreamAt(master[i].index).codec_name \notin UNSUPPORTED
    /\ pc \in {"sub_forced", "sub_vtt"} => sub.codec_name \notin UNSUPPORTED
    /\ (pc = "subs" /\ si > 1 /\ subs[si - 1].codec_name \in UNSUPPORTED) =>
           invoked = << >>

\* a bitmap stream was passed and the text stream after it has its line
BitmapNeverExtractedWitness ==
    /\ \E i \in DOMAIN master :
           master[i].type = "SUBTITLES"
    /\ Len(subs) = 2
    /\ subs[1].codec_name \in UNSUPPORTED
    /\ Len(extracted) = 1
    /\ extracted[1].index = subs[2].index

(* C6: for each audio track the first command is the chosen strategy; a    *)
(* failed copy is followed by exactly one more command, AAC at             *)
(* AUDIO_BITRATE; a failed transcode is followed by none; no track has     *)
(* more than two commands; a finished track is in the returned list if and *)
(* only if its last command exited 0, and the manifest's audio lines are   *)
(* those of the returned list.                                             *)
AudioCascade ==
    /\ (pc \in {"audio", "audio_copy", "audio_encode"} /\ invoked /= << >>) =>
        LET n == Len(invoked)
            t == IF pc = "audio" THEN audio_streams[ai - 1] ELSE audio_streams[ai]
            plan == select_audio_codec(t)
        IN  /\ n <= 2
            /\ \A i \in 1..n :
                   invoked[i].kind = "audio" /\ invoked[i].index = t.index
            /\ invoked[1].codec = plan.codec
            /\ invoked[1].bitrate = plan.bitrate
            /\ n = 2 => /\ invoked[1].codec = "copy"
                        /\ invoked[1].rc /= 0
                        /\ invoked[2].codec = "aac"
                        /\ invoked[2].bitrate = AUDIO_BITRATE
            /\ pc /= "audio_copy"
            /\ pc = "audio_encode" =>
                   n = 1 /\ invoked[1].codec = "copy" /\ invoked[1].rc /= 0
            /\ pc = "audio" =>
                   /\ (invoked[1].codec = "copy" /\ invoked[1].rc /= 0) => n = 2
                   /\ invoked[1].codec /= "copy" => n = 1
                   /\ InEntries(audio_entries, t) <=> invoked[n].rc = 0
    /\ pc = "audio" /\ ai > 1 => invoked /= << >>
    /\ master /= << >> =>
           IndexesOf(MediaLines(master, "AUDIO")) = IndexesOf(audio_entries)

\* a track whose copy failed and whose AAC fallback put it in the list
AudioCascadeWitness ==
    /\ pc = "audio"
    /\ Len(invoked) = 2
    /\ invoked[2].rc = 0
    /\ InEntries(audio_entries, audio_streams[ai - 1])

(* C7: for each text-capable subtitle stream the copy is always the first  *)
(* command; the forced transcode follows if and only if the intermediate   *)
(* file is then missing or zero-length; a failed forced transcode drops    *)
(* the track with no conversion; otherwise the conversion follows, and the *)
(* track is recorded if and only if the conversion exited 0.               *)
SubtitleCascade ==
    /\ pc \in {"sub_forced", "sub_vtt"} =>
        /\ invoked /= << >>
        /\ \A i \in DOMAIN invoked : invoked[i].index = sub.index
        /\ invoked[1].kind = "sub_copy"
        /\ pc = "sub_forced" =>
               /\ Len(invoked) = 1
               /\ FileState(fs_srt, tmp_srt) \in {"missing", "empty"}
        /\ pc = "sub_vtt" =>
               \/ Len(invoked) = 1 /\ FileState(fs_srt, tmp_srt) = "data"
               \/ /\ KindsOf(invoked) = << "sub_copy", "sub_forced" >>
                  /\ invoked[2].rc = 0
    /\ (pc = "subs" /\ si > 1 /\ subs[si - 1].codec_name \notin UNSUPPORTED) =>
        LET n == Len(invoked)
            t == subs[si - 1]
        IN  /\ KindsOf(invoked) \in
                   { << "sub_copy", "sub_forced" >>,
                     << "sub_copy", "sub_vtt" >>,
                     << "sub_copy", "sub_forced", "sub_vtt" >> }
            /\ \A i \in 1..n : invoked[i].index = t.index
            /\ invoked[n].kind = "sub_forced" =>
                   invoked[n].rc /= 0 /\ ~InEntries(extracted, t)
            /\ n = 3 => invoked[2].rc = 0
            /\ invoked[n].kind = "sub_vtt" =>
                   (InEntries(extracted, t) <=> invoked[n].rc = 0)

\* a copy that exited 0 and left an empty file, then forced, then converted
SubtitleCascadeWitness ==
    /\ pc = "subs"
    /\ KindsOf(invoked) = << "sub_copy", "sub_forced", "sub_vtt" >>
    /\ invoked[1].rc = 0
    /\ invoked[3].rc = 0
    /\ InEntries(extracted, subs[si - 1])

VideoCmds == SelectSeq(invoked, LAMBDA c : c.kind = "video")

(* C8: a video encode is attempted for a rung only if the rung's target    *)
(* width does not exceed the source width, and the width and height given  *)
(* to the scale filter never exceed the source width and height.           *)
NoUpscaling ==
    \A i \in DOMAIN invoked :
        invoked[i].kind = "video" =>
            /\ LADDER[invoked[i].label] <= src_w
            /\ invoked[i].w <= src_w
            /\ invoked[i].h <= src_h

\* a ladder that ended with a rung scaled down and a rung left out
NoUpscalingWitness ==
    /\ pc = "video"
    /\ ri > Len(SortedLadder)
    /\ Len(VideoCmds) \in 1..(Len(SortedLadder) - 1)
    /\ VideoCmds[1].w < src_w
    /\ VideoCmds[1].h < src_h

(* C9: for every planned rung the height compute_scaled_size_from_width    *)
(* returns, as written into the scale filter and RESOLUTION, is even.      *)
ScaledHeightEven ==
    /\ \A i \in DOMAIN invoked :
           invoked[i].kind = "video" => invoked[i].h % 2 = 0
    /\ \A i \in DOMAIN master :
           IsStreamInf(master[i]) => master[i].h % 2 = 0

(* C10: for the probe result of spec section 8 the rungs attempted are     *)
(* 480p, 720p and 1080p and no other; the first audio track's strategy is  *)
(* copy and the second's eac3 at 896k; the forced transcode is attempted   *)
(* only if the copy left no data, and copy then conversion records the     *)
(* rendition; a track is listed when its last command exited 0; and when   *)
(* every track and rung succeeded the manifest is the preamble, two AUDIO  *)
(* lines, one SUBTITLES line and three stream-info blocks of ascending     *)
(* bandwidth.                                                              *)
ScenarioOutcome ==
    /\ pc = "video" =>
           LabelsOf(invoked) =
               SubSeq(<< "480p", "720p", "1080p" >>, 1,
                      IF ri - 1 < 3 THEN ri - 1 ELSE 3)
    /\ (pc \in {"audio", "audio_encode"} /\ invoked /= << >>) =>
           LET t == IF pc = "audio" THEN audio_streams[ai - 1] ELSE audio_streams[ai]
           IN  /\ t.codec_name = "aac" =>
                      invoked[1].codec = "copy" /\ invoked[1].bitrate = "None"
               /\ t.codec_name = "dts" =>
                      invoked = << [invoked[1] EXCEPT
                                      !.codec = "eac3", !.bitrate = "896k"] >>
               /\ (pc = "audio" /\ invoked[Len(invoked)].rc = 0) =>
                      InEntries(audio_entries, t)
               /\ (pc = "audio" /\ invoked[1].rc = 0) => Len(invoked) = 1
    /\ pc = "sub_forced" => FileState(fs_srt, tmp_srt) /= "data"
    /\ (pc = "subs" /\ si > 1 /\ invoked[Len(invoked)].rc = 0) =>
           /\ invoked[Len(invoked)].kind = "sub_vtt"
           /\ InEntries(extracted, subs[si - 1])
    /\ (/\ pc = "video"
        /\ ri > Len(SortedLadder)
        /\ Len(audio_entries) = 2
        /\ Len(extracted) = 1
        /\ \A i \in DOMAIN invoked : invoked[i].rc = 0) =>
           /\ Len(MediaLines(master, "AUDIO")) = 2
           /\ Len(MediaLines(master, "SUBTITLES")) = 1
           /\ [i \in 1..Len(StreamInfLines(master)) |->
                  StreamInfLines(master)[i].bandwidth]
                = << 750000, 1500000, 3500000 >>
           /\ [i \in 1..Len(StreamInfLines(master)) |->
                  << StreamInfLines(master)[i].w, StreamInfLines(master)[i].h >>]
                = << <<854, 480>>, <<1280, 720>>, <<1920, 1080>> >>
           /\ Len(master) = 16

\* the run of spec section 8 in which every command exited 0
ScenarioOutcomeWitness ==
    /\ pc = "video"
    /\ ri > Len(SortedLadder)
    /\ Len(audio_entries) = 2
    /\ Len(extracted) = 1
    /\ Len(invoked) = 3
    /\ \A i \in DOMAIN invoked : invoked[i].rc = 0

----------------------------------------------------------------------------
\* no two lines of the sequence are the same EXT-X-MEDIA line
NoDuplicateMedia(m) ==
    \A i, j \in 1..Len(m) : (i /= j /\ IsMedia(m[i])) => m[i] /= m[j]

IsPrefix(s, t) == Len(s) <= Len(t) /\ SubSeq(t, 1, Len(s)) = s

(* C11: write_master_header truncates and fully replaces the manifest: on  *)
(* every step that writes the header, whatever the manifest held before    *)
(* (nothing, or the header and stream-info entries of an earlier input of  *)
(* the same name), the manifest after the call equals the one the call     *)
(* produces on an empty file with the same lists, a second call with the   *)
(* same lists leaves that content unchanged, and no EXT-X-MEDIA entry      *)
(* occurs twice; the same holds of script.py's write_master_header.        *)
HeaderReplacesManifest ==
    [][(pc = "header" /\ pc' = "video") =>
          LET prior == fs_master[master_path]
              after == fs_master'[master_path]
              once  == script_write_master_header(prior, audio_entries, extracted)
          IN  /\ after = write_master_header(<< >>, audio_entries, extracted)
              /\ write_master_header(after, audio_entries, extracted) = after
              /\ NoDuplicateMedia(after)
              /\ once = script_write_master_header(<< >>, audio_entries, extracted)
              /\ script_write_master_header(once, audio_entries, extracted) = once
              /\ NoDuplicateMedia(once)]_vars

\* the header is about to be written over the manifest a first input of the
\* same name left, header and stream-info entries, with lists of its own
HeaderReplacesManifestWitness ==
    /\ pc = "header"
    /\ fi = 2
    /\ StreamInfLines(fs_master[master_path]) /= << >>
    /\ MediaLines(fs_master[master_path], "AUDIO") /= << >>
    /\ audio_entries = << >>
    /\ extracted /= << >>

(* C12: within one input's run the manifest header is written exactly      *)
(* once, and after that write the manifest is append-only: the header step *)
(* is the only step that leaves the header position, the run never comes   *)
(* back to it for the same input, the manifest of another input is never   *)
(* touched, and every step of the ladder loop leaves a manifest of which   *)
(* the manifest before the step is a prefix.                               *)
AppendOnlyAfterHeader ==
    [][/\ pc = "header" => pc' \in {"video", "crashed"}
       /\ pc = "video" =>
            /\ pc' \in {"video", "main"}
            /\ pc' = "video" => fi' = fi
            /\ pc' = "main" => fi' = fi + 1
            /\ IsPrefix(fs_master[master_path], fs_master'[master_path])
       /\ pc' = "header" => pc = "audio"
       /\ (pc /= "header" /\ pc /= "video") => fs_master' = fs_master
       /\ \A st \in Stems :
            (pc \in {"header", "video"} /\ st /= master_path)
                => fs_master'[st] = fs_master[st]]_vars

\* the ladder loop has appended two entries after the header of this run
AppendOnlyAfterHeaderWitness ==
    /\ pc = "video"
    /\ MediaLines(fs_master[master_path], "AUDIO") /= << >>
    /\ Len(StreamInfLines(fs_master[master_path])) >= 2
    /\ StartsWithHeader(fs_master[master_path], audio_entries, extracted)

----------------------------------------------------------------------------
\* the name c is the lower-case name base in some letter case
SameIgnoringCase(c, base) ==
    LET sp == Spelling[c]
        b  == Spelling[base]
    IN  /\ Len(sp) = Len(b)
        /\ \A i \in 1..Len(b) :
              \/ sp[i] = b[i]
              \/ \E k \in 1..26 : Lowers[k] = b[i] /\ Uppers[k] = sp[i]

IsOneOf(c, bases) == \E base \in bases : SameIgnoringCase(c, base)

(* C13: select_audio_codec implements the audio decision table for every   *)
(* source codec name irrespective of letter case: right after the decision *)
(* for a track, aac, ac3 and eac3 have given direct copy with no bitrate,  *)
(* truehd eac3 at 1536k, dts, dts_hd_ma, dts-ma and dts-hd eac3 at 896k,   *)
(* and every other name, a missing one included, eac3 at 640k.             *)
AudioDecisionTable ==
    (pc \in {"audio_copy", "audio_encode"} /\ invoked = << >>) =>
        LET name == IF audio.codec_name = Absent THEN "" ELSE audio.codec_name
            decision == [codec |-> a_codec, bitrate |-> a_bitrate]
        IN  /\ pc = "audio_copy" <=> a_codec = "copy"
            /\ IF IsOneOf(name, {"aac", "ac3", "eac3"})
                   THEN decision = [codec |-> "copy", bitrate |-> "None"]
               ELSE IF IsOneOf(name, {"truehd"})
                   THEN decision = [codec |-> "eac3", bitrate |-> "1536k"]
               ELSE IF IsOneOf(name, {"dts", "dts_hd_ma", "dts-ma", "dts-hd"})
                   THEN decision = [codec |-> "eac3", bitrate |-> "896k"]
               ELSE decision = [codec |-> "eac3", bitrate |-> "640k"]

\* a name in mixed case has been decided
AudioDecisionTableWitness ==
    /\ pc = "audio_encode"
    /\ invoked = << >>
    /\ audio.codec_name = "DTS-hd"
    /\ a_bitrate = "896k"

----------------------------------------------------------------------------
(* C14: one call of run_ffmpeg_with_progress follows NotStarted -> Running *)
(* -> {Completed, Failed}: it starts exactly one process and never starts  *)
(* a second one, it returns True exactly when the process exited with      *)
(* status 0 and otherwise raises the error that carries that exit status,  *)
(* and that outcome is decided by the exit status alone, whatever lines    *)
(* were read and however many display updates were written or throttled.   *)
OneProcessOneOutcome ==
    [][/\ mon'.started <= 1
       /\ mon'.state /= "NotStarted" => mon'.started = 1
       /\ << mon.state, mon'.state >> \in
              { << "NotStarted", "Running" >>, << "Running", "Running" >>,
                << "Running", "Completed" >>, << "Running", "Failed" >> }
       /\ mon'.state = "Running" => (~mon'.returned /\ mon'.raised = 0)
       /\ mon'.state = "Completed" =>
              (mon'.returned /\ mon'.raised = 0 /\ mon'.returncode = 0)
       /\ mon'.state = "Failed" =>
              (~mon'.returned /\ mon'.raised = mon'.returncode
                 /\ mon'.returncode /= 0)
       /\ mon'.state \in {"Completed", "Failed"} =>
              /\ mon'.nlines = mon.nlines
              /\ mon'.updates = mon.updates
              /\ mon'.throttled = mon.throttled]_vars

\* a call that wrote a display update, throttled another, read a line it
\* does not recognize, and failed on a process killed by a signal
OneProcessOneOutcomeWitness ==
    /\ mon.state = "Failed"
    /\ mon.raised = -9
    /\ mon.updates >= 1
    /\ mon.throttled >= 1
    /\ ~Matches(mon.line)

(* C16: on every recognized progress line, for every total duration        *)
(* (unknown, zero, negative, positive) and every elapsed value, the        *)
(* percentage lies in [0, 100] and is 0 when the total duration is unknown *)
(* or <= 0, the ETA is >= 0 and is 0 when the speed is <= 0; a line that   *)
(* does not match the elapsed-time field leaves every computed value, and  *)
(* the display, as they were.                                              *)
ProgressValuesInRange ==
    [][(mon.state = "Running" /\ mon'.state = "Running") =>
          IF Matches(mon'.line)
          THEN /\ mon'.computed
               /\ ~RatLess(mon'.pct, Zero)
               /\ ~RatLess(Rat(100, 1), mon'.pct)
               /\ (~mon'.total_duration.known \/ mon'.total_duration.secs <= 0)
                      => mon'.pct = Zero
               /\ ~RatLess(mon'.remaining, Zero)
               /\ ~RatLess(Zero, mon'.speed) => mon'.remaining = Zero
          ELSE /\ mon'.computed = mon.computed
               /\ mon'.current_time = mon.current_time
               /\ mon'.pct = mon.pct
               /\ mon'.speed = mon.speed
               /\ mon'.remaining = mon.remaining
               /\ mon'.updates = mon.updates
               /\ mon'.last_print = mon.last_print]_vars

\* 25 s reported of a 10 s total: the percentage is held at 100 and the ETA
\* at 0, and the unrecognized line read afterwards has changed neither
ProgressValuesInRangeWitness ==
    /\ mon.state = "Running"
    /\ mon.line.field = "frame"
    /\ mon.computed
    /\ mon.current_time = Rat(25, 1)
    /\ mon.total_duration = [known |-> TRUE, secs |-> 10]
    /\ mon.pct = Rat(100, 1)
    /\ RatLess(Zero, mon.speed)
    /\ mon.remaining = Zero

----------------------------------------------------------------------------
\* n rounded up to the nearest even integer
EvenUp(n) == IF n % 2 /= 0 THEN n + 1 ELSE n

\* the commands of rungs narrower than the source
ScaledCmds == SelectSeq(invoked, LAMBDA c : c.kind = "video" /\ c.w < src_w)

(* C15 as stated: for every target width smaller than the source width the *)
(* height given to the scale filter is round(target_w * src_h / src_w)     *)
(* rounded up to the nearest even integer.                                 *)
ScaledHeightRounded ==
    \A i \in DOMAIN ScaledCmds :
        ScaledCmds[i].h = EvenUp(RoundScaled(src_h, ScaledCmds[i].w, src_w))

(* C15 amended: for every target width smaller than the source width the   *)
(* height is the quotient target_w * src_h / src_w truncated, not rounded, *)
(* then rounded up to the nearest even integer; where the quotient is an   *)
(* integer the truncated double product is that integer or one less.       *)
ScaledHeightTruncated ==
    \A i \in DOMAIN ScaledCmds :
        LET n == src_h * ScaledCmds[i].w
            q == n \div src_w
        IN  IF n % src_w /= 0
            THEN ScaledCmds[i].h = EvenUp(q)
            ELSE ScaledCmds[i].h \in { EvenUp(q), EvenUp(q - 1) }

\* 1000x530 at width 854: the quotient 452.62 is truncated to 452, where
\* rounding gives 453 and then 454
ScaledHeightTruncatedWitness ==
    /\ src_w = 1000
    /\ src_h = 530
    /\ ScaledCmds /= << >>
    /\ ScaledCmds[1].w = 854
    /\ ScaledCmds[1].h = 452
    /\ EvenUp(RoundScaled(src_h, 854, src_w)) = 454

----------------------------------------------------------------------------
(* C17: on every exit path of the cascade for one subtitle stream (bitmap  *)
(* skip, forced extraction failed, conversion failed, success) the         *)
(* intermediate .srt file of that stream does not exist when the loop      *)
(* moves on to the next stream, and none is left when the function returns.*)
SrtGoneAtNextStream ==
    [][/\ (pc \in {"subs", "sub_forced", "sub_vtt"} /\ si' = si + 1) =>
              FileState(fs_srt', tmp_srt) = "missing"
       /\ pc' \in {"subs", "audio"} => fs_srt' = NoSrt]_vars

\* the copy of the first subtitle stream and its forced extraction have both
\* run, the second failed, and the loop is at the next stream with no file
SrtGoneAtNextStreamWitness ==
    /\ pc = "subs"
    /\ si = 2
    /\ Len(invoked) = 2
    /\ invoked[2].kind = "sub_forced"
    /\ invoked[2].rc /= 0
    /\ fs_srt = NoSrt

----------------------------------------------------------------------------
\* BANDWIDTH of a rung: the number in its bitrate, times 1000
ExpectedBandwidth ==
    [l \in DOMAIN LADDER |->
        CASE l = "480p"  -> 750000
          [] l = "720p"  -> 1500000
          [] l = "1080p" -> 3500000
          [] l = "1440p" -> 6000000
          [] l = "2160p" -> 12000000]

(* C18: rungs are attempted in strictly ascending target-width order, the  *)
(* stream-info entry of a successfully encoded rung is in the manifest     *)
(* before the encode of the next rung starts, so that at every point of    *)
(* the rung loop the EXT-X-STREAM-INF entries are exactly those of the     *)
(* rungs already encoded successfully, in that order, each with BANDWIDTH  *)
(* = numeric bitrate x 1000, strictly ascending.                           *)
RungsAscending ==
    pc = "video" =>
        LET infs == StreamInfLines(master)
            ok   == Succeeded(VideoCmds)
        IN  /\ \A i, j \in DOMAIN VideoCmds :
                  i < j => LADDER[VideoCmds[i].label] < LADDER[VideoCmds[j].label]
            /\ \A i \in DOMAIN VideoCmds :
                  LADDER[VideoCmds[i].label] < LADDER[SortedLadder[ri - 1]]
                      \/ i = Len(VideoCmds)
            /\ Len(infs) = Len(ok)
            /\ \A i \in DOMAIN infs :
                  /\ infs[i].label = ok[i].label
                  /\ infs[i].bandwidth = ExpectedBandwidth[ok[i].label]
            /\ \A i, j \in DOMAIN infs :
                  i < j => infs[i].bandwidth < infs[j].bandwidth

\* three rungs attempted, the middle one failed: two entries, ascending
RungsAscendingWitness ==
    /\ pc = "video"
    /\ Len(VideoCmds) >= 3
    /\ VideoCmds[1].rc = 0
    /\ VideoCmds[2].rc /= 0
    /\ VideoCmds[3].rc = 0
    /\ Len(StreamInfLines(master)) = 2

----------------------------------------------------------------------------
SubPhase == {"subs", "sub_forced", "sub_vtt"}

AudioPhase == {"audio", "audio_copy", "audio_encode"}

\* the last command issued for the track in hand exited 0
LastSucceeded(cmds, kind) ==
    /\ cmds /= << >>
    /\ cmds[Len(cmds)].kind = kind
    /\ cmds[Len(cmds)].rc = 0

StrictlyIncreasing(q) == \A i, j \in DOMAIN q : i < j => q[i] < q[j]

(* C19: the failure of one subtitle or audio track never keeps a later     *)
(* track from being attempted nor the header from being written: the       *)
(* subtitle loop only moves to the next stream or on to the audio loop,    *)
(* the audio loop only to the next stream or on to the header, one stream  *)
(* at a time; a track enters its list exactly when its last command        *)
(* exited 0; and the header written holds one audio line for exactly the   *)
(* tracks of the audio list and one subtitle line for exactly those of     *)
(* the subtitle list, each in source discovery order.                      *)
TrackFailureSkipsOnlyTrack ==
    [][/\ pc \in SubPhase =>
            /\ pc' \in SubPhase \cup {"audio"}
            /\ si' \in {si, si + 1}
            /\ si' = si + 1 =>
                 /\ pc' = "subs"
                 /\ extracted' =
                      IF LastSucceeded(invoked', "sub_vtt")
                      THEN Append(extracted, [index |-> sub.index])
                      ELSE extracted
            /\ si' = si => extracted' = extracted
            /\ pc' = "audio" => si > Len(subs)
       /\ pc \in AudioPhase =>
            /\ pc' \in AudioPhase \cup {"header"}
            /\ ai' \in {ai, ai + 1}
            /\ ai' = ai + 1 =>
                 /\ pc' = "audio"
                 /\ audio_entries' =
                      IF LastSucceeded(invoked', "audio")
                      THEN Append(audio_entries, [index |-> audio.index])
                      ELSE audio_entries
            /\ ai' = ai => audio_entries' = audio_entries
            /\ pc' = "header" => ai > Len(audio_streams)
       /\ (pc = "header" /\ pc' = "video") =>
            LET written == fs_master'[master_path]
                alines  == MediaLines(written, "AUDIO")
                slines  == MediaLines(written, "SUBTITLES")
            IN  /\ [i \in DOMAIN alines |-> alines[i].index]
                      = IndexesOf(audio_entries)
                /\ [i \in DOMAIN slines |-> slines[i].index]
                      = IndexesOf(extracted)
                /\ StrictlyIncreasing(IndexesOf(audio_entries))
                /\ StrictlyIncreasing(IndexesOf(extracted))
                /\ \A i \in DOMAIN audio_entries :
                      InEntries(audio_entries, StreamAt(audio_entries[i].index))
                        /\ StreamAt(audio_entries[i].index).codec_type = "audio"
                /\ \A i \in DOMAIN extracted :
                      StreamAt(extracted[i].index).codec_type = "subtitle"]_vars

\* the first of two text subtitle streams failed, the second was extracted,
\* and the header written holds the line of the second alone
TrackFailureSkipsOnlyTrackWitness ==
    /\ pc = "video"
    /\ Len(subs) = 2
    /\ ~SkipBitmap(subs[1].codec_name)
    /\ IndexesOf(extracted) = << subs[2].index >>
    /\ Len(MediaLines(master, "SUBTITLES")) = 1
    /\ MediaLines(master, "SUBTITLES")[1].index = subs[2].index

----------------------------------------------------------------------------
\* no stream of the probe result has type video
NoVideoIn(ss) == \A i \in DOMAIN ss : ss[i].codec_type /= "video"

(* C20: when the probed streams of an input contain no video stream, the   *)
(* input's pipeline fails with the no-video error before any subtitle,     *)
(* audio or video encoder operation is invoked and before any manifest or  *)
(* intermediate file is written for that input: the step that follows the  *)
(* probe raises, and as long as the probe result holds no video stream the *)
(* run is nowhere past that step.                                          *)
NoVideoFailsFirst ==
    [][/\ (pc = "resolution" /\ NoVideoIn(streams)) => pc' = "crashed"
       /\ NoVideoIn(streams') =>
            /\ pc' \in {"main", "probe", "resolution", "crashed"}
            /\ invoked' = << >>
            /\ extracted' = << >>
            /\ audio_entries' = << >>
            /\ fs_master' = NoMaster
            /\ fs_srt' = NoSrt]_vars

\* a container with an audio and a subtitle stream and no video stream
NoVideoFailsFirstWitness ==
    /\ pc = "crashed"
    /\ NoVideoIn(streams)
    /\ Audios(streams) /= << >>
    /\ Subs(streams) /= << >>
    /\ invoked = << >>
    /\ master = << >>

----------------------------------------------------------------------------
(* C21: in script.py a failing track or rung command is a skip: the run   *)
(* never ends on one, so a run that ended on an exception has no failed   *)
(* track or rung command behind it (only the prober, the inventory or the *)
(* manifest header made it end), and the manifest is still produced.      *)
ScriptFailureIsSkipped ==
    pc = "crashed" => \A k \in DOMAIN invoked : invoked[k].rc = 0

----------------------------------------------------------------------------
(* C22: in extract_all_subs, when the copy of a text-capable subtitle      *)
(* stream exited non-zero, the forced transcode is attempted before any    *)
(* conversion to WebVTT: the conversion never runs, and no subtitle entry  *)
(* is made, with a failed copy as the only command before it.              *)
FailedCopyForcesTranscode ==
    (/\ pc \in {"subs", "sub_forced", "sub_vtt"}
     /\ invoked /= << >>
     /\ invoked[1].kind = "sub_copy"
     /\ invoked[1].rc /= 0)
    => /\ pc = "sub_vtt" =>
            (Len(invoked) >= 2 /\ invoked[2].kind = "sub_forced")
       /\ \A k \in DOMAIN invoked :
            invoked[k].kind = "sub_vtt" =>
                \E j \in 1..(k - 1) : invoked[j].kind = "sub_forced"

----------------------------------------------------------------------------
\* the encoder commands of the track or ladder in hand stay within their
\* number: copy, forced, conversion for a subtitle stream; copy, fallback
\* for an audio stream; one per rung of the ladder, no rung twice
OperationsBounded ==
    /\ pc \in SubPhase =>
          /\ Len(invoked) <= 3
          /\ \A j, k \in DOMAIN invoked :
                j /= k => invoked[j].kind /= invoked[k].kind
    /\ pc \in AudioPhase => Len(invoked) <= 2
    /\ pc = "video" =>
          /\ Len(invoked) <= Len(SortedLadder)
          /\ \A j, k \in DOMAIN invoked :
                j /= k => invoked[j].label /= invoked[k].label

(* C23: when every external process exits, the processing of every input   *)
(* finishes, completed (the loop moves past it) or aborted, and the whole  *)
(* run ends; on the way at most three encoder commands run per subtitle    *)
(* stream, two per audio stream and one per ladder rung.                   *)
BoundedTermination ==
    /\ []OperationsBounded
    /\ \A k \in 1..MaxFiles :
          (fi = k /\ pc = "probe") ~> (pc = "crashed" \/ fi > k)
    /\ <>(pc \in {"done", "crashed"})

\* the second input of a batch is being processed, the first one finished,
\* and its subtitle stream took all three commands
BoundedTerminationWitness ==
    /\ fi = 2
    /\ pc = "subs"
    /\ Len(invoked) = 3
    /\ invoked[3].kind = "sub_vtt"

----------------------------------------------------------------------------
\* the encoder process started by the scan is working on its input "file"
ChildProcessing ==
    /\ scan.pc = "child"
    /\ pc \notin {"off", "main", "done", "crashed"}

(* C24: scan_to_encode.py encodes exactly the files whose output directory *)
(* does not exist yet: the encoder it starts never works on a file whose   *)
(* output directory was there when the scan began, and works only on the   *)
(* file the scan announced for that launch.                                *)
ScanEncodesOnlyNewFiles ==
    ChildProcessing =>
        /\ Stem(file) \notin scan.existed
        /\ file = scan_file

----------------------------------------------------------------------------
(* C25: in a batch run each input's run writes only its own manifest:     *)
(* while an input is processed, no step truncates or appends to the       *)
(* manifest that an earlier, distinct input of the batch produced.        *)
OwnManifestOnly ==
    [][\A k \in DOMAIN input_files :
          (k < fi /\ fi <= Len(input_files) /\ input_files[k] /= file)
          => fs_master'[Stem(input_files[k])] = fs_master[Stem(input_files[k])]]_vars

====
